---- MODULE Spec2Model ----
(***************************************************************************)
(* State-machine model of lib/ansible/modules/cloud/azure/                 *)
(* azure_rm_managed_disk.py: one invocation of AzureRMManagedDisk          *)
(* (argument validation, then exec_module) against a provider holding one  *)
(* managed disk and two virtual machines.  Every provider call of the      *)
(* module is one step, so the order of the calls and the effect of a       *)
(* failing call are visible.                                               *)
(*                                                                         *)
(* Python values: None of a string option is the string "None" (distinct   *)
(* from the empty string ''); an optional int or dict is a sequence of     *)
(* length at most one, <<>> being None.                                    *)
(***************************************************************************)
EXTENDS Integers, Sequences, FiniteSets, TLC

VARIABLES
    kwargs,         \* the module arguments of the invocation (exec_module's **kwargs)
    check_mode,     \* self.check_mode
    pc,             \* position of the invocation in exec_module
    disk,           \* provider: the managed disk, <<>> when absent, else <<Disk>>
    vms,            \* provider: data_disks of each virtual machine
    disk_instance,  \* exec_module local: <<>> (None) or <<dict>>
    result,         \* exec_module local: [kind, dict]
    changed,        \* exec_module local
    vm,             \* attach/detach local: data_disks of the fetched VM, as modified
    calls,          \* provider calls issued by this invocation, in order
    parameter,      \* the parameter handed to disks.create_or_update, <<>> if none
    failure,        \* message class of self.fail / uncaught exception, "" if none
    faulted,        \* some provider call of this invocation raised
    disk0,          \* provider disk when the invocation started
    vms0,           \* provider VMs when the invocation started
    prev            \* the invocations already completed with these arguments:
                    \* how many, whether all were free of provider errors, and
                    \* the changed the last one returned

vars == <<kwargs, check_mode, pc, disk, vms, disk_instance, result, changed, vm,
          calls, parameter, failure, faulted, disk0, vms0, prev>>

----------------------------------------------------------------------------
(* Values *)

None == "None"
NoneV == <<>>
Some(x) == <<x>>

\* Python truthiness of an optional str: None and '' are falsy.
truthy_str(x) == x # None /\ x # ""

\* Largest LUN of a data disk that exists before the first invocation.
MaxLun == 1

\* Number of times the same arguments are applied in a row.
MaxRuns == 2

DiskName == "d1"
DiskId == "/disks/d1"
OtherId == "/disks/other"
RGLocation == "westus"
VMs == {"vmA", "vmB"}

\* The virtual machine a name given to virtual_machines.get or create_or_update
\* resolves to: the provider matches resource names without regard to case.
vm_resource(name) == IF name = "VMA" THEN "vmA" ELSE name

\* Resource id of a virtual machine, as the provider reports it in managed_by.
vm_id(v) == IF v = "vmA" THEN "/virtualMachines/vmA" ELSE "/virtualMachines/vmB"

\* msrestazure parse_resource_id(rid).get('name'): {} for a falsy rid.
parse_resource_id_name(rid) ==
    IF rid = None \/ rid = "" THEN None
    ELSE IF rid = "/virtualMachines/vmA" THEN "vmA"
    ELSE IF rid = "/virtualMachines/vmB" THEN "vmB"
    ELSE None

\* str.lower() on the strings that occur.
lower(s) ==
    CASE s = "Linux" -> "linux"
      [] s = "Windows" -> "windows"
      [] s = "Empty" -> "empty"
      [] s = "Import" -> "import"
      [] s = "Copy" -> "copy"
      [] s = "D1" -> "d1"
      [] OTHER -> s

\* compute_models.OperatingSystemTypes: the SDK's enum, whose members carry the
\* provider's spelling (the reason managed_disk_to_dict lowercases os_type).
OperatingSystemTypes(t) == IF t = "linux" THEN "Linux" ELSE "Windows"

\* compute_models.DiskCreateOption
DiskCreateOption(c) ==
    CASE c = "import" -> "Import"
      [] c = "copy" -> "Copy"
      [] OTHER -> "Empty"

Tags1 == {<<"k", "v">>}

----------------------------------------------------------------------------
(* Module arguments (module_arg_spec, lines 193-232, plus tags) *)

\* Arguments that exercise the diff-tracked fields and the attachment.
TrackedArgs ==
    [state : {"present"}, location : {None},
     storage_account_type : {None, "Premium_LRS"},
     create_option : {None}, source_uri : {None},
     os_type : {None, "linux"},
     disk_size_gb : {NoneV, Some(0), Some(4)},
     managed_by : {None, "", "vmA", "vmB", "VMA"},
     tags : {NoneV, Some({}), Some(Tags1)}]

\* Arguments that exercise location, creation mode and source.
CreationArgs ==
    [state : {"present"}, location : {None, "eastus"},
     storage_account_type : {None},
     create_option : {None, "empty", "import", "copy"}, source_uri : {None, "src"},
     os_type : {None, "linux"},
     disk_size_gb : {NoneV, Some(4)},
     managed_by : {None, "vmB"},
     tags : {NoneV}]

\* Arguments with state=absent.
AbsentArgs ==
    [state : {"absent"}, location : {None},
     storage_account_type : {None},
     create_option : {None}, source_uri : {None},
     os_type : {None},
     disk_size_gb : {NoneV, Some(4)},
     managed_by : {None, "", "vmA", "vmB"},
     tags : {NoneV}]

DiskSpecs == TrackedArgs \cup CreationArgs \cup AbsentArgs

\* required_if of AzureRMModuleBase.__init__: TRUE when the arguments pass.
required_if(s) ==
    /\ (s.create_option = "import" => s.source_uri # None)
    /\ (s.create_option = "copy" => s.source_uri # None)
    /\ (s.create_option = "empty" => s.disk_size_gb # NoneV)

\* self.location after lines 266-268.
location(s) == IF ~truthy_str(s.location) THEN RGLocation ELSE s.location

----------------------------------------------------------------------------
(* Pure functions of the module *)

\* Faulty variant of managed_disk_to_dict: os_type is passed through as the
\* provider spells it.
managed_disk_to_dict_as_sent(managed_disk) ==
    [id |-> managed_disk.id,
     name |-> managed_disk.name,
     location |-> managed_disk.location,
     tags |-> managed_disk.tags,
     create_option |-> lower(managed_disk.creation_data.create_option),
     source_uri |-> IF managed_disk.creation_data.source_uri # None
                    THEN managed_disk.creation_data.source_uri
                    ELSE managed_disk.creation_data.source_resource_id,
     disk_size_gb |-> managed_disk.disk_size_gb,
     os_type |-> managed_disk.os_type,
     storage_account_type |-> managed_disk.sku,
     managed_by |-> managed_disk.managed_by]

managed_disk_to_dict(managed_disk) ==
    [id |-> managed_disk.id,
     name |-> managed_disk.name,
     location |-> managed_disk.location,
     tags |-> managed_disk.tags,
     create_option |-> lower(managed_disk.creation_data.create_option),
     source_uri |-> IF managed_disk.creation_data.source_uri # None
                    THEN managed_disk.creation_data.source_uri
                    ELSE managed_disk.creation_data.source_resource_id,
     disk_size_gb |-> managed_disk.disk_size_gb,
     os_type |-> IF managed_disk.os_type # None THEN lower(managed_disk.os_type) ELSE None,
     storage_account_type |-> managed_disk.sku,
     managed_by |-> managed_disk.managed_by]

\* Faulty variant of generate_managed_disk_property: an omitted os_type is sent
\* as linux.
generate_managed_disk_property_os_default(s) ==
    [location |-> location(s),
     tags |-> s.tags,
     sku |-> IF truthy_str(s.storage_account_type) THEN s.storage_account_type ELSE None,
     disk_size_gb |-> s.disk_size_gb,
     creation_data |->
        [create_option |-> DiskCreateOption(s.create_option),
         source_uri |-> IF s.create_option = "import" THEN s.source_uri ELSE None,
         source_resource_id |-> IF s.create_option = "copy" THEN s.source_uri ELSE None],
     os_type |-> IF truthy_str(s.os_type) THEN OperatingSystemTypes(s.os_type) ELSE "Linux"]

generate_managed_disk_property(s) ==
    [location |-> location(s),
     tags |-> s.tags,
     sku |-> IF truthy_str(s.storage_account_type) THEN s.storage_account_type ELSE None,
     disk_size_gb |-> s.disk_size_gb,
     creation_data |->
        [create_option |-> DiskCreateOption(s.create_option),
         source_uri |-> IF s.create_option = "import" THEN s.source_uri ELSE None,
         source_resource_id |-> IF s.create_option = "copy" THEN s.source_uri ELSE None],
     os_type |-> IF truthy_str(s.os_type) THEN OperatingSystemTypes(s.os_type) ELSE None]

\* Python truthiness of an optional int: None and 0 are falsy.
truthy_int(x) == x # NoneV /\ x # Some(0)

\* Faulty variant of is_different: tags are tested for truth like the other
\* fields, so a declared empty tag set is ignored.
is_different_truthy_tags(found_disk, new_disk) ==
    \/ truthy_int(new_disk.disk_size_gb)
         /\ ~(found_disk.disk_size_gb = new_disk.disk_size_gb)
    \/ new_disk.os_type # None
         /\ ~(found_disk.os_type = new_disk.os_type)
    \/ new_disk.sku # None
         /\ ~(found_disk.storage_account_type = new_disk.sku)
    \/ (new_disk.tags # NoneV /\ new_disk.tags # Some({}))
         /\ ~(found_disk.tags = new_disk.tags)

is_different(found_disk, new_disk) ==
    \/ truthy_int(new_disk.disk_size_gb)
         /\ ~(found_disk.disk_size_gb = new_disk.disk_size_gb)
    \/ new_disk.os_type # None
         /\ ~(found_disk.os_type = new_disk.os_type)
    \/ new_disk.sku # None
         /\ ~(found_disk.storage_account_type = new_disk.sku)
    \/ new_disk.tags # NoneV
         /\ ~(found_disk.tags = new_disk.tags)

\* Faulty variant of managed_by_supplied: an omitted managed_by is not told
\* apart from a supplied one.
managed_by_supplied_always(s) == TRUE

\* Line 284: the attachment pass runs for a truthy managed_by or for ''.
managed_by_supplied(s) == truthy_str(s.managed_by) \/ s.managed_by = ""

\* Lines 285-286: the name of the VM the disk is attached to, '' if none.
current_vm_name(di) ==
    IF di = <<>> THEN ""
    ELSE IF parse_resource_id_name(di[1].managed_by) = None THEN ""
    ELSE parse_resource_id_name(di[1].managed_by)

\* Line 276.
needs_create_or_update(s, di) ==
    IF di = <<>> THEN TRUE ELSE is_different(di[1], generate_managed_disk_property(s))

RECURSIVE max_lun(_)
max_lun(luns) ==
    IF Len(luns) = 1 THEN luns[1]
    ELSE IF luns[1] > max_lun(Tail(luns)) THEN luns[1] ELSE max_lun(Tail(luns))

\* Faulty variant of attach_data_disks: the LUN is the number of data disks.
attach_data_disks_by_count(data_disks, d) ==
    Append(data_disks, [name |-> None, lun |-> Len(data_disks), id |-> d.id])

\* Faulty variant of attach_data_disks: the LUN is the largest LUN in use.
attach_data_disks_max(data_disks, d) ==
    LET luns == [i \in 1..Len(data_disks) |-> data_disks[i].lun]
        lun == IF Len(luns) > 0 THEN max_lun(luns) ELSE 0
    IN Append(data_disks, [name |-> None, lun |-> lun, id |-> d.id])

\* attach, lines 309-316: the data_disks with the new DataDisk appended.
attach_data_disks(data_disks, d) ==
    LET luns == [i \in 1..Len(data_disks) |-> data_disks[i].lun]
        lun == IF Len(luns) > 0 THEN max_lun(luns) + 1 ELSE 0
    IN Append(data_disks, [name |-> None, lun |-> lun, id |-> d.id])

\* Faulty variant of leftovers: the filter keeps the disk and drops the rest.
leftovers_inverted(data_disks, d) ==
    SelectSeq(data_disks, LAMBDA e : lower(e.name) = lower(d.name))

\* detach, line 321: the data disks whose name is not the disk's, ignoring case.
leftovers(data_disks, d) ==
    SelectSeq(data_disks, LAMBDA e : lower(e.name) # lower(d.name))

----------------------------------------------------------------------------
(* The provider, as the module's calls see it.  The SDK client is outside the   *)
(* module; its successful calls are modelled by what the module's own          *)
(* documentation and the shapes it reads and writes say about them, and every  *)
(* call may instead raise.                                                     *)

ProviderSizes == {4, 8}

\* disks.create_or_update followed by get_poller_result, on success.  A field the
\* request leaves out keeps its value (DOCUMENTATION of os_type, lines 77-79), a
\* new disk without sku is Standard_LRS (line 49); location and creation data
\* are fixed at creation; sz is the size the provider gives a disk created
\* without one.
disks_create_or_update(cur, p, sz) ==
    IF cur = <<>>
    THEN [id |-> DiskId, name |-> DiskName, location |-> p.location, tags |-> p.tags,
          creation_data |-> p.creation_data,
          disk_size_gb |-> IF p.disk_size_gb = NoneV THEN Some(sz) ELSE p.disk_size_gb,
          os_type |-> p.os_type,
          sku |-> IF p.sku = None THEN "Standard_LRS" ELSE p.sku,
          managed_by |-> None]
    ELSE [cur[1] EXCEPT
          !.tags = IF p.tags = NoneV THEN @ ELSE p.tags,
          !.disk_size_gb = IF p.disk_size_gb = NoneV THEN @ ELSE p.disk_size_gb,
          !.os_type = IF p.os_type = None THEN @ ELSE p.os_type,
          !.sku = IF p.sku = None THEN @ ELSE p.sku]

\* virtual_machines.create_or_update, on success: the VM's stored data disks; the
\* provider names an entry that references a managed disk by id.
stored_data_disks(data_disks) ==
    [i \in 1..Len(data_disks) |->
        IF data_disks[i].name = None
        THEN [data_disks[i] EXCEPT !.name = DiskName]
        ELSE data_disks[i]]

references_disk(data_disks) == \E i \in 1..Len(data_disks) : data_disks[i].id = DiskId

\* The disk's managed_by after VM name was written with data_disks.
managed_by_after(d, name, data_disks) ==
    IF references_disk(data_disks) THEN vm_id(vm_resource(name))
    ELSE IF d.managed_by = vm_id(vm_resource(name)) THEN None
    ELSE d.managed_by

----------------------------------------------------------------------------
(* Initial provider states *)

OtherDisk(n, l) == [name |-> n, lun |-> l, id |-> OtherId]
OurDisk(n, l) == [name |-> n, lun |-> l, id |-> DiskId]

\* data_disks of a VM that does not hold the disk.
FreeDataDisks ==
    {<<>>} \cup {<<OtherDisk("x", l)>> : l \in 0..MaxLun}
           \cup {<<OtherDisk("x", MaxLun), OtherDisk("y", 0)>>}

\* data_disks of a VM that holds the disk; the provider may spell its name in
\* another case.
HoldingDataDisks ==
    {<<OurDisk("d1", 0)>>, <<OtherDisk("x", 0), OurDisk("D1", MaxLun)>>}

ExistingDisks ==
    {[id |-> DiskId, name |-> DiskName, location |-> RGLocation, tags |-> Some({}),
      creation_data |-> [create_option |-> "Empty", source_uri |-> None,
                         source_resource_id |-> None],
      disk_size_gb |-> Some(8), os_type |-> None, sku |-> "Standard_LRS",
      managed_by |-> mb] : mb \in {None, vm_id("vmA")}}
    \cup
    {[id |-> DiskId, name |-> DiskName, location |-> RGLocation, tags |-> Some(Tags1),
      creation_data |-> [create_option |-> "Import", source_uri |-> "src",
                         source_resource_id |-> None],
      disk_size_gb |-> Some(4), os_type |-> "Windows", sku |-> "Premium_LRS",
      managed_by |-> mb] : mb \in {None, vm_id("vmA")}}

NoResult == [kind |-> "None", dict |-> <<>>]
TrueResult == [kind |-> "True", dict |-> <<>>]
DictResult(d) == [kind |-> "dict", dict |-> <<d>>]

NoPrev == [runs |-> 0, clean |-> TRUE, changed |-> FALSE, dry |-> FALSE]

Call(op, target) == [op |-> op, target |-> target]

Init ==
    /\ disk \in {<<>>} \cup {<<d>> : d \in ExistingDisks}
    /\ vms \in [VMs -> FreeDataDisks \cup HoldingDataDisks]
    /\ vms["vmB"] \in FreeDataDisks
       \* the disk is on vmA's list only if the disk says so; the converse (the
       \* disk claims vmA, vmA has no entry) is the state detach guards against
    /\ vms["vmA"] \in HoldingDataDisks => (disk # <<>> /\ disk[1].managed_by = vm_id("vmA"))
    /\ vms["vmA"] \in FreeDataDisks => Len(vms["vmA"]) = 1 /\ vms["vmA"][1].lun = 0
    /\ kwargs \in DiskSpecs
    /\ check_mode \in BOOLEAN
    /\ pc = "init"
    /\ disk_instance = <<>>
    /\ result = NoResult
    /\ changed = FALSE
    /\ vm = <<>>
    /\ calls = <<>>
    /\ parameter = <<>>
    /\ failure = ""
    /\ faulted = FALSE
    /\ disk0 = disk
    /\ vms0 = vms
    /\ prev = NoPrev

----------------------------------------------------------------------------
(* One invocation *)

\* Faulty variant of Fail: the error is recorded and the run goes on to line 296.
FailRecorded(msg) ==
    /\ pc' = "delete"
    /\ failure' = msg

\* self.fail(msg): fail_json exits the process.
Fail(msg) ==
    /\ pc' = "failed"
    /\ failure' = msg

\* AzureRMModuleBase.__init__ validates the arguments before exec_module runs.
ValidateArgs ==
    /\ pc = "init"
    /\ IF required_if(kwargs)
       THEN pc' = "get_disk" /\ UNCHANGED failure
       ELSE Fail("ValidationError")
    /\ UNCHANGED <<kwargs, check_mode, disk, vms, disk_instance, result, changed, vm,
                   calls, parameter, faulted, disk0, vms0, prev>>

\* get_managed_disk: the dict of the disk, None on any CloudError (err: a
\* CloudError other than not-found).
get_managed_disk(err) ==
    IF err \/ disk = <<>> THEN <<>> ELSE <<managed_disk_to_dict(disk[1])>>

\* Lines 270-271.
GetDisk ==
    /\ pc = "get_disk"
    /\ \E err \in BOOLEAN :
        /\ disk_instance' = get_managed_disk(err)
        /\ result' = IF get_managed_disk(err) = <<>> THEN NoResult
                     ELSE DictResult(get_managed_disk(err)[1])
        /\ faulted' = (faulted \/ err)
    /\ calls' = Append(calls, Call("disks.get", DiskName))
    /\ pc' = "apply"
    /\ UNCHANGED <<kwargs, check_mode, disk, vms, changed, vm, parameter, failure,
                   disk0, vms0, prev>>

\* Lines 274-276 when nothing is to be created or updated.
ApplySkip ==
    /\ pc = "apply"
    /\ ~(kwargs.state = "present" /\ needs_create_or_update(kwargs, disk_instance))
    /\ pc' = "attachment"
    /\ UNCHANGED <<kwargs, check_mode, disk, vms, disk_instance, result, changed, vm,
                   calls, parameter, failure, faulted, disk0, vms0, prev>>

\* Faulty variant of ApplyCheckMode: changed is set only where the call is made.
ApplyCheckModeSilent ==
    /\ pc = "apply"
    /\ kwargs.state = "present" /\ needs_create_or_update(kwargs, disk_instance)
    /\ check_mode
    /\ result' = TrueResult
    /\ pc' = "attachment"
    /\ UNCHANGED <<kwargs, check_mode, disk, vms, disk_instance, changed, vm, calls,
                   parameter, failure, faulted, disk0, vms0, prev>>

\* Lines 277-281 in check mode.
ApplyCheckMode ==
    /\ pc = "apply"
    /\ kwargs.state = "present" /\ needs_create_or_update(kwargs, disk_instance)
    /\ check_mode
    /\ changed' = TRUE
    /\ result' = TrueResult
    /\ pc' = "attachment"
    /\ UNCHANGED <<kwargs, check_mode, disk, vms, disk_instance, vm, calls, parameter,
                   failure, faulted, disk0, vms0, prev>>

\* The parameter create_or_update_managed_disk hands to the provider.
sent_parameter(s) == generate_managed_disk_property(s)

\* Lines 277-279 and create_or_update_managed_disk.
CreateOrUpdate ==
    /\ pc = "apply"
    /\ kwargs.state = "present" /\ needs_create_or_update(kwargs, disk_instance)
    /\ ~check_mode
    /\ changed' = TRUE
    /\ calls' = Append(calls, Call("disks.createOrUpdate", DiskName))
    /\ parameter' = Some(sent_parameter(kwargs))
    /\ \/ \E sz \in ProviderSizes :
            /\ disk' = <<disks_create_or_update(disk, sent_parameter(kwargs), sz)>>
            /\ result' = DictResult(managed_disk_to_dict(disk'[1]))
            /\ pc' = "attachment"
            /\ UNCHANGED <<failure, faulted>>
       \/ /\ Fail("Error creating the managed disk")
          /\ faulted' = TRUE
          /\ UNCHANGED <<disk, result>>
    /\ UNCHANGED <<kwargs, check_mode, vms, disk_instance, vm, disk0, vms0, prev>>

\* Where line 289-294 goes once the attachment is known to differ.
attachment_pc(s, vm_name) ==
    IF truthy_str(vm_name) THEN "detach"
    ELSE IF truthy_str(s.managed_by) THEN "attach"
    ELSE "reread"

\* Line 292, after detach returned.
after_detach_pc(s) == IF truthy_str(s.managed_by) THEN "attach" ELSE "reread"

\* Faulty variant of disk_not_found: the length check is missing.
disk_not_found_never(data_disks, left) == FALSE

\* detach, line 322: no data disk carried the disk's name.
disk_not_found(data_disks, left) == Len(data_disks) = Len(left)

\* Lines 284-287 when the attachment pass has nothing to do.
AttachmentSkip ==
    /\ pc = "attachment"
    /\ ~(managed_by_supplied(kwargs) /\ kwargs.managed_by # current_vm_name(disk_instance))
    /\ pc' = "delete"
    /\ UNCHANGED <<kwargs, check_mode, disk, vms, disk_instance, result, changed, vm,
                   calls, parameter, failure, faulted, disk0, vms0, prev>>

\* Lines 284-289: the desired VM differs from the current one.
AttachmentDiffers ==
    /\ pc = "attachment"
    /\ managed_by_supplied(kwargs)
    /\ kwargs.managed_by # current_vm_name(disk_instance)
    /\ changed' = TRUE
    /\ pc' = IF check_mode THEN "delete"
             ELSE attachment_pc(kwargs, current_vm_name(disk_instance))
    /\ UNCHANGED <<kwargs, check_mode, disk, vms, disk_instance, result, vm,
                   calls, parameter, failure, faulted, disk0, vms0, prev>>

\* _get_vm on success: the data disks of VM name.
get_vm(name) == vms[vm_resource(name)]

\* detach, lines 320-324: read the old VM and drop the disk from its data disks.
DetachGetVm ==
    /\ pc = "detach"
    /\ calls' = Append(calls, Call("virtualMachines.get", current_vm_name(disk_instance)))
    /\ \/ /\ UNCHANGED faulted
          /\ LET data_disks == get_vm(current_vm_name(disk_instance))
                 left == leftovers(data_disks, result.dict[1])
             IN IF disk_not_found(data_disks, left)
                THEN Fail("No disk with the name was found") /\ UNCHANGED vm
                ELSE vm' = left /\ pc' = "detach_update" /\ UNCHANGED failure
       \/ /\ Fail("Error getting virtual machine")
          /\ faulted' = TRUE
          /\ UNCHANGED vm
    /\ UNCHANGED <<kwargs, check_mode, disk, vms, disk_instance, result, changed,
                   parameter, disk0, vms0, prev>>

\* _update_vm on success: the provider stores the data disks of VM name.
update_vm(name, data_disks) ==
    [vms EXCEPT ![vm_resource(name)] = stored_data_disks(data_disks)]

\* detach, line 325, then line 292.
DetachUpdateVm ==
    /\ pc = "detach_update"
    /\ calls' = Append(calls, Call("virtualMachines.createOrUpdate",
                                   current_vm_name(disk_instance)))
    /\ \/ /\ vms' = update_vm(current_vm_name(disk_instance), vm)
          /\ disk' = IF disk = <<>> THEN disk
                     ELSE <<[disk[1] EXCEPT !.managed_by =
                               managed_by_after(disk[1], current_vm_name(disk_instance), vm)]>>
          /\ pc' = after_detach_pc(kwargs)
          /\ UNCHANGED <<failure, faulted>>
       \/ /\ Fail("Error updating virtual machine")
          /\ faulted' = TRUE
          /\ UNCHANGED <<disk, vms>>
    /\ vm' = <<>>
    /\ UNCHANGED <<kwargs, check_mode, disk_instance, result, changed, parameter,
                   disk0, vms0, prev>>

\* attach, lines 307-316: read the new VM and append the data disk; disk.get on
\* a result of None raises AttributeError.
AttachGetVm ==
    /\ pc = "attach"
    /\ calls' = Append(calls, Call("virtualMachines.get", kwargs.managed_by))
    /\ \/ /\ IF result.kind = "dict"
             THEN /\ vm' = attach_data_disks(get_vm(kwargs.managed_by), result.dict[1])
                  /\ pc' = "attach_update"
                  /\ UNCHANGED failure
             ELSE Fail("AttributeError") /\ UNCHANGED vm
          /\ UNCHANGED faulted
       \/ /\ Fail("Error getting virtual machine")
          /\ faulted' = TRUE
          /\ UNCHANGED vm
    /\ UNCHANGED <<kwargs, check_mode, disk, vms, disk_instance, result, changed,
                   parameter, disk0, vms0, prev>>

\* attach, line 317.
AttachUpdateVm ==
    /\ pc = "attach_update"
    /\ calls' = Append(calls, Call("virtualMachines.createOrUpdate", kwargs.managed_by))
    /\ \/ /\ vms' = update_vm(kwargs.managed_by, vm)
          /\ disk' = IF disk = <<>> THEN disk
                     ELSE <<[disk[1] EXCEPT !.managed_by =
                               managed_by_after(disk[1], kwargs.managed_by, vm)]>>
          /\ pc' = "reread"
          /\ UNCHANGED <<failure, faulted>>
       \/ /\ Fail("Error updating virtual machine")
          /\ faulted' = TRUE
          /\ UNCHANGED <<disk, vms>>
    /\ vm' = <<>>
    /\ UNCHANGED <<kwargs, check_mode, disk_instance, result, changed, parameter,
                   disk0, vms0, prev>>

\* Faulty variant of Reread: the disk is not read again after the attachment
\* pass.
RereadSkipped ==
    /\ pc = "reread"
    /\ pc' = "delete"
    /\ UNCHANGED <<kwargs, check_mode, disk, vms, disk_instance, result, changed, vm,
                   calls, parameter, failure, faulted, disk0, vms0, prev>>

\* Line 294.
Reread ==
    /\ pc = "reread"
    /\ calls' = Append(calls, Call("disks.get", DiskName))
    /\ \E err \in BOOLEAN :
        /\ result' = IF get_managed_disk(err) = <<>> THEN NoResult
                     ELSE DictResult(get_managed_disk(err)[1])
        /\ faulted' = (faulted \/ err)
    /\ pc' = "delete"
    /\ UNCHANGED <<kwargs, check_mode, disk, vms, disk_instance, changed, vm, parameter,
                   failure, disk0, vms0, prev>>

\* Faulty variant of needs_delete: the state argument is not looked at.
needs_delete_any_state(s, di) == di # <<>>

\* Line 296.
needs_delete(s, di) == s.state = "absent" /\ di # <<>>

\* Lines 296, 302-304 when nothing is to be deleted.
DeleteSkip ==
    /\ pc = "delete"
    /\ ~needs_delete(kwargs, disk_instance)
    /\ pc' = "done"
    /\ UNCHANGED <<kwargs, check_mode, disk, vms, disk_instance, result, changed, vm,
                   calls, parameter, failure, faulted, disk0, vms0, prev>>

\* Faulty variant of DeleteCheckMode: the delete is not guarded by check_mode.
DeleteCheckModeUnguarded ==
    /\ pc = "delete"
    /\ needs_delete(kwargs, disk_instance)
    /\ check_mode
    /\ changed' = TRUE
    /\ calls' = Append(calls, Call("disks.delete", DiskName))
    /\ disk' = <<>>
    /\ result' = TrueResult
    /\ pc' = "done"
    /\ UNCHANGED <<kwargs, check_mode, vms, disk_instance, vm, parameter,
                   failure, faulted, disk0, vms0, prev>>

\* Lines 296-300 in check mode.
DeleteCheckMode ==
    /\ pc = "delete"
    /\ needs_delete(kwargs, disk_instance)
    /\ check_mode
    /\ changed' = TRUE
    /\ result' = TrueResult
    /\ pc' = "done"
    /\ UNCHANGED <<kwargs, check_mode, disk, vms, disk_instance, vm, calls, parameter,
                   failure, faulted, disk0, vms0, prev>>

\* Lines 296-300 and delete_managed_disk.
DeleteDisk ==
    /\ pc = "delete"
    /\ needs_delete(kwargs, disk_instance)
    /\ ~check_mode
    /\ changed' = TRUE
    /\ calls' = Append(calls, Call("disks.delete", DiskName))
    /\ \/ /\ disk' = <<>>
          /\ result' = TrueResult
          /\ pc' = "done"
          /\ UNCHANGED <<failure, faulted>>
       \/ /\ Fail("Error deleting the managed disk")
          /\ faulted' = TRUE
          /\ UNCHANGED <<disk, result>>
    /\ UNCHANGED <<kwargs, check_mode, vms, disk_instance, vm, parameter, disk0, vms0, prev>>

\* The same arguments are applied again to the provider state the completed
\* invocation left (a fresh process: AzureRMManagedDisk() in main).
Rerun ==
    /\ pc = "done"
    /\ prev.runs + 1 < MaxRuns
    /\ prev' = [runs |-> prev.runs + 1, clean |-> ~faulted /\ prev.clean,
                changed |-> changed, dry |-> FALSE]
    /\ pc' = "init"
    /\ disk_instance' = <<>>
    /\ result' = NoResult
    /\ changed' = FALSE
    /\ vm' = <<>>
    /\ calls' = <<>>
    /\ parameter' = <<>>
    /\ failure' = ""
    /\ faulted' = FALSE
    /\ disk0' = disk
    /\ vms0' = vms
    /\ UNCHANGED <<kwargs, check_mode, disk, vms>>

\* A dry run (check_mode, supports_check_mode of line 256) whose provider calls
\* all succeeded is followed by the real invocation of the same arguments;
\* prev.changed keeps what the dry run reported.
RunForReal ==
    /\ pc = "done"
    /\ check_mode /\ ~faulted
    /\ prev = NoPrev
    /\ prev' = [prev EXCEPT !.changed = changed, !.dry = TRUE]
    /\ check_mode' = FALSE
    /\ pc' = "init"
    /\ disk_instance' = <<>>
    /\ result' = NoResult
    /\ changed' = FALSE
    /\ vm' = <<>>
    /\ calls' = <<>>
    /\ parameter' = <<>>
    /\ failure' = ""
    /\ faulted' = FALSE
    /\ disk0' = disk
    /\ vms0' = vms
    /\ UNCHANGED <<kwargs, disk, vms>>

Next ==
    \/ ValidateArgs
    \/ GetDisk
    \/ ApplySkip
    \/ ApplyCheckMode
    \/ CreateOrUpdate
    \/ AttachmentSkip
    \/ AttachmentDiffers
    \/ DetachGetVm
    \/ DetachUpdateVm
    \/ AttachGetVm
    \/ AttachUpdateVm
    \/ Reread
    \/ DeleteSkip
    \/ DeleteCheckMode
    \/ DeleteDisk
    \/ Rerun
    \/ RunForReal

Spec == Init /\ [][Next]_vars

----------------------------------------------------------------------------
(* Vocabulary of the properties *)

CallCount(op) == Cardinality({i \in DOMAIN calls : calls[i].op = op})

MutatingOps == {"disks.createOrUpdate", "disks.delete", "virtualMachines.createOrUpdate"}
VmOps == {"virtualMachines.get", "virtualMachines.createOrUpdate"}

NoMutatingCall == \A i \in DOMAIN calls : calls[i].op \notin MutatingOps
VmCalls == SelectSeq(calls, LAMBDA c : c.op \in VmOps)

\* The invocation returned self.results and every provider call it made succeeded.
Completed == pc = "done" /\ ~faulted

\* The disk as a reader saw it when the invocation started.
Dict0 == managed_disk_to_dict(disk0[1])

SizeDiffers == kwargs.disk_size_gb # NoneV /\ kwargs.disk_size_gb # Dict0.disk_size_gb
OsTypeDiffers == kwargs.os_type # None /\ kwargs.os_type # Dict0.os_type
TierDiffers == kwargs.storage_account_type # None
                 /\ kwargs.storage_account_type # Dict0.storage_account_type
TagsDiffer == kwargs.tags # NoneV /\ kwargs.tags # Dict0.tags

\* Every diff-tracked field the arguments declare has the disk's current value.
TrackedIdentical == ~SizeDiffers /\ ~OsTypeDiffers /\ ~TierDiffers /\ ~TagsDiffer

ExactlyOneTrackedDiffers ==
    Cardinality({f \in {"size", "os_type", "tier", "tags"} :
        \/ f = "size" /\ SizeDiffers
        \/ f = "os_type" /\ OsTypeDiffers
        \/ f = "tier" /\ TierDiffers
        \/ f = "tags" /\ TagsDiffer}) = 1

\* The VM the disk was attached to when the invocation started, '' if none.
VmName0 == IF disk0 = <<>> THEN "" ELSE current_vm_name(<<Dict0>>)

\* The arguments ask for no change of attachment.
AttachmentSettled == ~managed_by_supplied(kwargs) \/ kwargs.managed_by = VmName0

\* The returned state d shows what the arguments declare.
Reflects(d, s) ==
    /\ d.location = location(s)
    /\ s.tags # NoneV => d.tags = s.tags
    /\ s.disk_size_gb # NoneV => d.disk_size_gb = s.disk_size_gb
    /\ s.storage_account_type # None => d.storage_account_type = s.storage_account_type
    /\ s.os_type # None => d.os_type = s.os_type
    /\ d.create_option = (IF s.create_option = None THEN "empty" ELSE s.create_option)
    /\ d.source_uri = (IF s.create_option \in {"import", "copy"} THEN s.source_uri ELSE None)

----------------------------------------------------------------------------
(* Properties *)

\* C1: the same arguments applied a second time, to the provider state the
\* first application left and with every provider call of both succeeding,
\* return changed=false.
C1_SecondRunUnchanged ==
    (Completed /\ ~check_mode /\ prev.runs >= 1 /\ prev.clean) => ~changed

\* C2: state=present on an existing disk whose diff-tracked fields all have the
\* declared values (and no change of attachment asked for) returns changed=false
\* and issues no disks.createOrUpdate.
C2_IdenticalUnchanged ==
    (Completed /\ kwargs.state = "present" /\ disk0 # <<>>
        /\ TrackedIdentical /\ AttachmentSettled)
    => (~changed /\ CallCount("disks.createOrUpdate") = 0)

\* C3: state=present on an absent disk, not in check mode, returns changed=true
\* after exactly one disks.createOrUpdate, and the returned state reflects the
\* declared size, tier, os type, tags, location, creation mode and source.
C3_CreatePath ==
    (Completed /\ kwargs.state = "present" /\ disk0 = <<>> /\ ~check_mode)
    => /\ changed
       /\ CallCount("disks.createOrUpdate") = 1
       /\ result.kind = "dict"
       /\ Reflects(result.dict[1], kwargs)

C3_Witness ==
    /\ Completed /\ kwargs.state = "present" /\ disk0 = <<>> /\ ~check_mode
    /\ changed /\ result.kind = "dict"
    /\ kwargs.os_type = "linux" /\ kwargs.create_option = "copy"
    /\ kwargs.location = "eastus" /\ kwargs.managed_by = "vmB"

\* C4: state=present on an existing disk, not in check mode, with exactly one
\* diff-tracked field declared and different from the disk's: changed=true, and
\* the one disks.createOrUpdate receives the full normalized target.
C4_OneFieldDiffers ==
    (Completed /\ kwargs.state = "present" /\ disk0 # <<>> /\ ~check_mode
        /\ ExactlyOneTrackedDiffers)
    => /\ changed
       /\ CallCount("disks.createOrUpdate") = 1
       /\ parameter = Some(generate_managed_disk_property(kwargs))

\* One more than the largest LUN on a VM's data disks, 0 for none.
NextLun(data_disks) ==
    IF Len(data_disks) = 0 THEN 0
    ELSE 1 + (CHOOSE m \in {data_disks[i].lun : i \in DOMAIN data_disks} :
                \A i \in DOMAIN data_disks : data_disks[i].lun <= m)

\* The data disks that are not the managed disk.
Others(data_disks) == SelectSeq(data_disks, LAMBDA e : e.id # DiskId)

HasEntry(data_disks) ==
    \E i \in DOMAIN data_disks : lower(data_disks[i].name) = lower(DiskName)

MovesDisk ==
    /\ Completed /\ ~check_mode /\ disk0 # <<>>
    /\ VmName0 = "vmA" /\ kwargs.managed_by = "vmB"

\* C5: disk attached to vmA, managed_by=vmB, not in check mode: the VM calls are
\* get vmA, write vmA, get vmB, write vmB in this order, and vmB gains one entry
\* for the disk whose LUN is one more than the largest LUN vmB had (0 for none).
C5_DetachThenAttach ==
    MovesDisk =>
    /\ VmCalls = <<Call("virtualMachines.get", "vmA"),
                   Call("virtualMachines.createOrUpdate", "vmA"),
                   Call("virtualMachines.get", "vmB"),
                   Call("virtualMachines.createOrUpdate", "vmB")>>
    /\ ~references_disk(vms["vmA"])
    /\ vms["vmB"] = Append(vms0["vmB"],
                           [name |-> DiskName, lun |-> NextLun(vms0["vmB"]), id |-> DiskId])

C5_Witness == MovesDisk /\ Len(vms0["vmB"]) = 1 /\ vms0["vmB"][1].lun = MaxLun
                /\ Len(vms["vmB"]) = 2

C7_DetachOnly ==
    /\ (Completed /\ ~check_mode /\ disk0 # <<>> /\ VmName0 = "vmA"
            /\ kwargs.managed_by = "")
       => /\ VmCalls = <<Call("virtualMachines.get", "vmA"),
                         Call("virtualMachines.createOrUpdate", "vmA")>>
          /\ vms["vmA"] = Others(vms0["vmA"])
          /\ vms["vmB"] = vms0["vmB"]
          /\ changed
    /\ (kwargs.managed_by = "" /\ VmName0 = "") => VmCalls = <<>>

C7_Witness ==
    /\ Completed /\ ~check_mode /\ disk0 # <<>> /\ VmName0 = "vmA"
    /\ kwargs.managed_by = "" /\ Len(vms0["vmA"]) = 2 /\ Len(vms["vmA"]) = 1

NotFoundFailure == failure = "No disk with the name was found"

\* C8: detach on a VM without a data disk of the disk's name (ignoring case)
\* fails: the VM is never written without such an entry, and after the failure
\* the invocation has stopped with the VM read as its last provider call.
C8_DetachWithoutEntryFails ==
    /\ pc = "detach_update" => HasEntry(vms[VmName0])
    /\ NotFoundFailure =>
        /\ pc = "failed"
        /\ ~HasEntry(vms[VmName0])
        /\ calls[Len(calls)] = Call("virtualMachines.get", VmName0)
        /\ CallCount("virtualMachines.createOrUpdate") = 0
        /\ CallCount("disks.delete") = 0
        /\ vms = vms0

C8_Witness == NotFoundFailure /\ kwargs.managed_by = "vmB" /\ kwargs.state = "absent"

\* C9: state=absent on an existing disk issues exactly one disks.delete and
\* returns changed=true; on an absent disk it is a no-op returning
\* changed=false, whatever managed_by is.
C9_Absent ==
    /\ (Completed /\ kwargs.state = "absent" /\ disk0 # <<>> /\ ~check_mode)
       => (CallCount("disks.delete") = 1 /\ changed)
    /\ (kwargs.state = "absent" /\ disk0 = <<>> /\ ~faulted)
       => /\ NoMutatingCall
          /\ failure = ""
          /\ pc = "done" => ~changed

\* C10: in check mode no disks.createOrUpdate, disks.delete or
\* virtualMachines.createOrUpdate is issued and the provider state stays what it
\* was when the invocation started.
C10_CheckModeReadOnly ==
    check_mode => (NoMutatingCall /\ disk = disk0 /\ vms = vms0)

C10_Witness ==
    /\ check_mode /\ pc = "done" /\ changed /\ result.kind = "True"
    /\ kwargs.state = "absent" /\ disk0 # <<>> /\ kwargs.managed_by = "vmB"

\* The real invocation was preceded by a dry run of the same arguments on the
\* same provider state.
AfterDryRun == prev.dry /\ prev.runs = 0 /\ ~check_mode

\* C11: the changed a dry run reports equals the changed the real invocation of
\* the same arguments on the same provider state reports, whenever the real
\* invocation completes with every provider call succeeding.
C11_DryRunAgrees ==
    (AfterDryRun /\ Completed) => changed = prev.changed

C11_Witness ==
    /\ AfterDryRun /\ Completed /\ changed /\ prev.changed
    /\ CallCount("disks.createOrUpdate") = 1
    /\ CallCount("virtualMachines.createOrUpdate") = 2

\* The arguments leave os_type out and the disk had one when the invocation
\* started.
OsTypeOmittedOnTypedDisk ==
    kwargs.os_type = None /\ disk0 # <<>> /\ disk0[1].os_type # None

\* C12: with os_type omitted, an invocation against an existing disk whose os
\* type is set leaves that os type as it was, at every point of the invocation
\* and also when it issues disks.createOrUpdate for another field: the request
\* carries no os type.
C12_OsTypeKept ==
    OsTypeOmittedOnTypedDisk =>
    /\ parameter # <<>> => parameter[1].os_type = None
    /\ disk # <<>> => disk[1].os_type = disk0[1].os_type

C12_Witness ==
    /\ OsTypeOmittedOnTypedDisk /\ Completed /\ ~check_mode
    /\ CallCount("disks.createOrUpdate") = 1
    /\ kwargs.disk_size_gb = Some(4) /\ kwargs.tags = Some({})
    /\ disk # <<>> /\ disk[1].os_type = "Windows" /\ disk[1].tags = Some({})

\* The disk existed when the invocation started and its first disks.get
\* returned nothing: the read raised a CloudError other than not-found.
ReadFailed == disk0 # <<>> /\ Len(calls) >= 1 /\ disk_instance = <<>>

\* C13: a failure of the disk read other than not-found is fatal: no
\* disks.createOrUpdate, disks.delete or virtualMachines call follows it and the
\* invocation returns no result.
C13_ReadFailureFatal ==
    ReadFailed => (NoMutatingCall /\ VmCalls = <<>> /\ pc # "done")

\* import or copy without a source.
SourceMissing == kwargs.create_option \in {"import", "copy"} /\ kwargs.source_uri = None

\* empty, asked for or by default, without a size, where the disk is to be created.
SizeMissing ==
    /\ kwargs.create_option \in {None, "empty"} /\ kwargs.disk_size_gb = NoneV
    /\ kwargs.state = "present" /\ disk0 = <<>>

\* C14: arguments that are import or copy without a source, or empty (also by
\* default) without a size on the create path, are rejected before any provider
\* call: no call is ever issued and the invocation returns no result.
C14_RejectedBeforeAnyCall ==
    (SourceMissing \/ SizeMissing) => (calls = <<>> /\ pc # "done")

\* The two arguments of is_different at line 276.
Found == disk_instance[1]
Target == generate_managed_disk_property(kwargs)

\* Other values a field of the current disk could have.
SizeValues == {NoneV, Some(4), Some(8), Some(16)}
OsTypeValues == {None, "linux", "windows"}
TierValues == {"Standard_LRS", "Premium_LRS"}
TagValues == {NoneV, Some({}), Some(Tags1)}

\* The current disk with its untracked fields replaced.
WithUntracked(d, loc, opt, src, mb) ==
    [d EXCEPT !.location = loc, !.create_option = opt, !.source_uri = src,
              !.managed_by = mb]

\* What the claim says of is_different(Found, Target).
C15_AtLine276 ==
    /\ kwargs.disk_size_gb = NoneV =>
          \A v \in SizeValues :
            is_different([Found EXCEPT !.disk_size_gb = v], Target)
              = is_different(Found, Target)
    /\ kwargs.os_type = None =>
          \A v \in OsTypeValues :
            is_different([Found EXCEPT !.os_type = v], Target)
              = is_different(Found, Target)
    /\ kwargs.storage_account_type = None =>
          \A v \in TierValues :
            is_different([Found EXCEPT !.storage_account_type = v], Target)
              = is_different(Found, Target)
    /\ kwargs.tags = NoneV =>
          \A v \in TagValues :
            is_different([Found EXCEPT !.tags = v], Target)
              = is_different(Found, Target)
    /\ (kwargs.disk_size_gb = NoneV /\ kwargs.os_type = None
          /\ kwargs.storage_account_type = None /\ kwargs.tags = NoneV)
       => ~is_different(Found, Target)
    /\ (kwargs.tags # NoneV /\ kwargs.tags # Found.tags) => is_different(Found, Target)
    /\ (kwargs.disk_size_gb = NoneV /\ kwargs.os_type = None
          /\ kwargs.storage_account_type = None /\ kwargs.tags # NoneV)
       => (is_different(Found, Target) <=> kwargs.tags # Found.tags)
    /\ \A loc \in {RGLocation, "eastus"}, opt \in {"empty", "import"},
          src \in {None, "src"}, mb \in {None, vm_id("vmA"), vm_id("vmB")} :
          /\ is_different(WithUntracked(Found, loc, opt, src, mb), Target)
               = is_different(Found, Target)
          /\ is_different(Found, [Target EXCEPT !.location = loc,
                                     !.creation_data.create_option = DiskCreateOption(opt),
                                     !.creation_data.source_uri = src])
               = is_different(Found, Target)

\* C15: is_different has merge-patch semantics.  A field the arguments leave
\* undeclared has no influence on the result, whatever the disk's value is, and
\* with nothing declared the result is false; a declared tag set, the empty one
\* included, different from the disk's makes the result true, and is the only
\* thing that does when only tags are declared; location, creation mode,
\* source and attached VM, of the disk or of the target, have no influence.
\* After line 276-281 changed is that result.
C15_MergePatch ==
    /\ (disk_instance # <<>> /\ pc = "attachment" /\ kwargs.state = "present")
       => changed = is_different(Found, Target)
    /\ (disk_instance # <<>> /\ pc = "apply") => C15_AtLine276

C15_Witness ==
    /\ pc = "attachment" /\ kwargs.state = "present" /\ disk_instance # <<>>
    /\ kwargs.tags = Some({}) /\ Found.tags = Some(Tags1)
    /\ kwargs.disk_size_gb = NoneV /\ kwargs.os_type = None
    /\ kwargs.storage_account_type = None
    /\ Found.managed_by = vm_id("vmA") /\ kwargs.managed_by = "vmB"
    /\ changed

\* The provider call whose failure the message reports.
FailedOp ==
    CASE failure = "Error creating the managed disk" -> "disks.createOrUpdate"
      [] failure = "Error deleting the managed disk" -> "disks.delete"
      [] failure = "Error getting virtual machine" -> "virtualMachines.get"
      [] failure = "Error updating virtual machine" -> "virtualMachines.createOrUpdate"
      [] OTHER -> "none"

\* C16: once disks.createOrUpdate, disks.delete, virtualMachines.get or
\* virtualMachines.createOrUpdate has failed the invocation has stopped: the
\* failed call is the last provider call, it was issued once, and no result is
\* returned.
C16_FailureAborts ==
    FailedOp # "none" =>
    /\ pc = "failed"
    /\ faulted
    /\ calls # <<>>
    /\ calls[Len(calls)].op = FailedOp
    /\ Cardinality({i \in DOMAIN calls : calls[i] = calls[Len(calls)]}) = 1

C16_Witness ==
    /\ failure = "Error updating virtual machine" /\ pc = "failed"
    /\ CallCount("virtualMachines.createOrUpdate") = 2
    /\ kwargs.state = "absent" /\ disk # <<>> /\ disk[1].managed_by = None

\* The VMs whose data disks reference the disk.
Referencing(vmstate) == {v \in VMs : references_disk(vmstate[v])}

\* When the invocation started at most one VM referenced the disk and the
\* disk's managed_by agreed with it.
Consistent0 ==
    /\ Cardinality(Referencing(vms0)) <= 1
    /\ disk0 = <<>> => Referencing(vms0) = {}
    /\ disk0 # <<>> =>
          \A v \in VMs : (disk0[1].managed_by = vm_id(v)) <=> (v \in Referencing(vms0))

\* C17: from a state in which at most one VM references the disk and managed_by
\* agrees, the disk is referenced by at most one VM at every point of the
\* invocation, whether it completes or aborts.
C17_ExclusiveAttachment ==
    (prev.runs = 0 /\ Consistent0) => Cardinality(Referencing(vms)) <= 1

\* A disks.get follows call i.
ReadAfter(i) == \E j \in DOMAIN calls : j > i /\ calls[j].op = "disks.get"

\* C18, as claimed: in an invocation that is not a dry run and returns a result,
\* the first provider call is disks.get and every disks.createOrUpdate, every
\* VM write and every disks.delete is followed by a disks.get.
C18_RereadAfterEveryMutation ==
    (pc = "done" /\ ~check_mode /\ calls # <<>>) =>
    /\ calls[1] = Call("disks.get", DiskName)
    /\ \A i \in DOMAIN calls : calls[i].op \in MutatingOps => ReadAfter(i)

\* C18, amended: the first provider call is disks.get; only a VM write is
\* followed by a disks.get; after disks.createOrUpdate alone the returned state
\* is the response of that call and after disks.delete it is True.  A returned
\* disk is the disk as the provider holds it when the invocation returns, and
\* with every call succeeding a returned None means the disk does not exist.
C18_ReturnedStateCurrent ==
    pc = "done" =>
    /\ calls[1] = Call("disks.get", DiskName)
    /\ \A i \in DOMAIN calls :
          /\ calls[i].op = "virtualMachines.createOrUpdate" => ReadAfter(i)
          /\ calls[i].op \in {"disks.createOrUpdate", "disks.delete"}
               => (ReadAfter(i) <=> \E j \in DOMAIN calls :
                                       j > i /\ calls[j].op = "virtualMachines.createOrUpdate")
    /\ result.kind = "dict" =>
          (disk # <<>> /\ result.dict[1] = managed_disk_to_dict(disk[1]))
    /\ CallCount("disks.delete") = 1 => result = TrueResult
    /\ (~faulted /\ result.kind = "None") => disk = <<>>

C18_Witness ==
    /\ pc = "done" /\ ~check_mode /\ ~faulted
    /\ calls = <<Call("disks.get", DiskName), Call("disks.createOrUpdate", DiskName)>>
    /\ disk0 # <<>> /\ result.kind = "dict" /\ result.dict[1].tags # Dict0.tags

\* The mutating calls of the invocation, in the order they were issued.
MutatingCalls == SelectSeq(calls, LAMBDA c : c.op \in MutatingOps)

\* Place of a mutating call in the order createOrUpdate, detach VM write,
\* attach VM write, delete.  The detach write goes to the VM the disk was read
\* as attached to, the attach write to managed_by.
Place(c) ==
    CASE c.op = "disks.createOrUpdate" -> 1
      [] c.op = "virtualMachines.createOrUpdate"
           /\ c.target = current_vm_name(disk_instance) -> 2
      [] c.op = "virtualMachines.createOrUpdate"
           /\ c.target # current_vm_name(disk_instance) -> 3
      [] OTHER -> 4

\* C19: the mutating calls of an invocation come in the order
\* disks.createOrUpdate, detach VM write, attach VM write, disks.delete, each at
\* most once; createOrUpdate and delete never both; with state=absent and a
\* managed_by that differs from the disk's VM the VM writes come before the
\* delete, which is the last call.
C19_MutationOrder ==
    /\ \A i, j \in DOMAIN MutatingCalls :
          i < j => Place(MutatingCalls[i]) < Place(MutatingCalls[j])
    /\ \A i \in DOMAIN MutatingCalls :
          Place(MutatingCalls[i]) = 3 => MutatingCalls[i].target = kwargs.managed_by
    /\ ~(CallCount("disks.createOrUpdate") > 0 /\ CallCount("disks.delete") > 0)
    /\ (Completed /\ ~check_mode /\ kwargs.state = "absent" /\ disk0 # <<>>
          /\ managed_by_supplied(kwargs) /\ kwargs.managed_by # VmName0)
       => /\ CallCount("virtualMachines.createOrUpdate") >= 1
          /\ calls[Len(calls)] = Call("disks.delete", DiskName)

C19_Witness ==
    /\ Completed /\ ~check_mode /\ kwargs.state = "absent"
    /\ MutatingCalls = <<Call("virtualMachines.createOrUpdate", "vmA"),
                         Call("virtualMachines.createOrUpdate", "vmB"),
                         Call("disks.delete", DiskName)>>

DistinctLuns(data_disks) ==
    \A i, j \in DOMAIN data_disks : i # j => data_disks[i].lun # data_disks[j].lun

\* The attach writes to the VM the disk was detached from.
SameVm == vm_resource(kwargs.managed_by) = current_vm_name(disk_instance)

\* C20: attach keeps the LUNs of a VM pairwise distinct: the list it is about to
\* write is the list it read with exactly one entry for the disk appended, every
\* other entry as it was, and no two LUNs equal if none were; when the VM is the
\* one the disk was detached from, the list read is the one the detach wrote.
\* Hence VMs whose LUNs were distinct when the invocation started have distinct
\* LUNs at every point of it.
C20_LunsDistinct ==
    /\ pc = "attach_update" =>
          LET before == get_vm(kwargs.managed_by)
          IN /\ Len(vm) = Len(before) + 1
             /\ \A i \in DOMAIN before : vm[i] = before[i]
             /\ vm[Len(vm)].id = DiskId
             /\ DistinctLuns(before) => DistinctLuns(vm)
             /\ SameVm =>
                   /\ calls[Len(calls) - 1]
                        = Call("virtualMachines.createOrUpdate", current_vm_name(disk_instance))
                   /\ before = stored_data_disks(
                                   leftovers(vms0[current_vm_name(disk_instance)], Dict0))
    /\ (\A v \in VMs : DistinctLuns(vms0[v])) => (\A v \in VMs : DistinctLuns(vms[v]))

C20_Witness ==
    /\ pc = "attach_update" /\ SameVm /\ kwargs.managed_by = "VMA"
    /\ Len(vms0["vmA"]) = 2 /\ Len(vm) = 2 /\ vm[1].lun = 0 /\ vm[2].lun = 1

====
